---- MODULE Spec2Model ----
(***************************************************************************)
(* Credential authentication and session enrichment (the NextAuth options  *)
(* of app/api/auth/[...nextauth]/route.ts and its sibling copies) and the  *)
(* debounced location search box (components/report/LocationInput.tsx).    *)
(***************************************************************************)
EXTENDS Integers, Sequences, FiniteSets, TLC

(***************************************************************************)
(* Bounds                                                                  *)
(***************************************************************************)
MaxUsers == 2

MaxFetches == 3

MaxLen == 4

(***************************************************************************)
(* JavaScript values                                                       *)
(***************************************************************************)
Undefined == "<undefined>"

Null == "<null>"

Falsy(v) == v = Undefined \/ v = Null \/ v = ""

TypeOf(v) == IF v = Undefined THEN "undefined" ELSE IF v = Null THEN "object" ELSE "string"

(***************************************************************************)
(* The user table                                                          *)
(***************************************************************************)
Roles == {"ADMIN", "USER", "MODERATOR"}

UserIds == 1..MaxUsers

EmailTable == <<"a@x.com", "b@x.com", "c@x.com", "d@x.com">>

NameTable == <<"A", "B", "C", "D">>

Passwords == {"pw1", "pw2"}

\* bcryptjs: the stored password is a digest, never the plaintext
Hash(plaintext) == <<"$2a$", plaintext>>

compare(plaintext, digest) == Hash(plaintext) = digest

NoRow == [kind |-> "null"]

UserRows(i) ==
    [kind : {"row"}, id : {i}, email : {EmailTable[i]}, name : {NameTable[i]},
     password : {Hash(p) : p \in Passwords}, role : Roles]

\* every table the unique email column allows: at most one row per email
UserTables ==
    {{f[i] : i \in UserIds} \ {NoRow} :
        f \in {g \in [UserIds -> UNION {UserRows(i) \cup {NoRow} : i \in UserIds}] :
                  \A i \in UserIds : g[i] \in UserRows(i) \cup {NoRow}}}

findUnique(table, email) ==
    IF \E u \in table : u.email = email
    THEN CHOOSE u \in table : u.email = email
    ELSE NoRow

\* Number.prototype.toString for the ids of the table
Digits == <<"0", "1", "2", "3", "4", "5", "6", "7", "8", "9">>

RECURSIVE toString(_)
toString(n) == IF n < 10 THEN <<Digits[n + 1]>> ELSE toString(n \div 10) \o <<Digits[(n % 10) + 1]>>

(***************************************************************************)
(* Credentials submitted to the sign-in form                               *)
(***************************************************************************)
UndefinedCredentials == [kind |-> "undefined"]

EmailInputs == {EmailTable[i] : i \in UserIds} \cup {"nobody@x.com", "A@X.COM", "", Undefined}

PasswordInputs == Passwords \cup {"", Undefined}

CredentialInputs ==
    [kind : {"credentials"}, email : EmailInputs, password : PasswordInputs]
        \cup {UndefinedCredentials}

\* credentials?.email, credentials?.password
OptEmail(c) == IF c = UndefinedCredentials THEN Undefined ELSE c.email

OptPassword(c) == IF c = UndefinedCredentials THEN Undefined ELSE c.password

(***************************************************************************)
(* authorize                                                               *)
(***************************************************************************)
Throw(site, message, nLookups, nCompares) ==
    [kind |-> "error", site |-> site, message |-> message,
     lookups |-> nLookups, compares |-> nCompares]

Return(user, nLookups, nCompares) ==
    [kind |-> "user", user |-> user, lookups |-> nLookups, compares |-> nCompares]

\* the guard written with && instead of ||
authorizeAnd(table, c) ==
    IF Falsy(OptEmail(c)) /\ Falsy(OptPassword(c))
    THEN Throw("InvalidInput", "Please enter an email and password", 0, 0)
    ELSE LET user == findUnique(table, OptEmail(c)) IN
         IF user = NoRow
         THEN Throw("UserNotFound", "No user found with this email", 1, 0)
         ELSE IF ~compare(OptPassword(c), user.password)
              THEN Throw("InvalidCredentials", "Incorrect password", 1, 1)
              ELSE Return([kind |-> "user", id |-> toString(user.id), email |-> user.email,
                           name |-> user.name, role |-> user.role], 1, 1)

\* the role replaced by a default
authorizeDefaultRole(table, c) ==
    IF Falsy(OptEmail(c)) \/ Falsy(OptPassword(c))
    THEN Throw("InvalidInput", "Please enter an email and password", 0, 0)
    ELSE LET user == findUnique(table, c.email) IN
         IF user = NoRow
         THEN Throw("UserNotFound", "No user found with this email", 1, 0)
         ELSE IF ~compare(c.password, user.password)
              THEN Throw("InvalidCredentials", "Incorrect password", 1, 1)
              ELSE Return([kind |-> "user", id |-> toString(user.id), email |-> user.email,
                           name |-> user.name, role |-> "USER"], 1, 1)

\* the role left out of the returned object
authorizeOmitsRole(table, c) ==
    IF Falsy(OptEmail(c)) \/ Falsy(OptPassword(c))
    THEN Throw("InvalidInput", "Please enter an email and password", 0, 0)
    ELSE LET user == findUnique(table, c.email) IN
         IF user = NoRow
         THEN Throw("UserNotFound", "No user found with this email", 1, 0)
         ELSE IF ~compare(c.password, user.password)
              THEN Throw("InvalidCredentials", "Incorrect password", 1, 1)
              ELSE Return([kind |-> "user", id |-> toString(user.id), email |-> user.email,
                           name |-> user.name, role |-> Undefined], 1, 1)

\* the passwordMatch test left out
authorizeSkipsPasswordCheck(table, c) ==
    IF Falsy(OptEmail(c)) \/ Falsy(OptPassword(c))
    THEN Throw("InvalidInput", "Please enter an email and password", 0, 0)
    ELSE LET user == findUnique(table, c.email) IN
         IF user = NoRow
         THEN Throw("UserNotFound", "No user found with this email", 1, 0)
         ELSE Return([kind |-> "user", id |-> toString(user.id), email |-> user.email,
                      name |-> user.name, role |-> user.role], 1, 1)

authorize(table, c) ==
    IF Falsy(OptEmail(c)) \/ Falsy(OptPassword(c))
    THEN Throw("InvalidInput", "Please enter an email and password", 0, 0)
    ELSE LET user == findUnique(table, c.email) IN
         IF user = NoRow
         THEN Throw("UserNotFound", "No user found with this email", 1, 0)
         ELSE IF ~compare(c.password, user.password)
              THEN Throw("InvalidCredentials", "Incorrect password", 1, 1)
              ELSE Return([kind |-> "user", id |-> toString(user.id), email |-> user.email,
                           name |-> user.name, role |-> user.role], 1, 1)

(***************************************************************************)
(* callbacks                                                               *)
(***************************************************************************)
UndefinedUser == [kind |-> "undefined"]

\* === in place of !==
isUserRouteInverted(user) == user.role = Undefined

\* route.ts: (user as User).role !== undefined
isUserRoute(user) == user.role # Undefined

\* the other copies: user && typeof user.role === "string"
isUserTypeof(user) == user # UndefinedUser /\ TypeOf(user.role) = "string"

Builds == {"route", "typeof"}

isUser(b, user) == IF b = "route" THEN isUserRoute(user) ELSE isUserTypeof(user)

\* token.role = user?.role, whether or not a user object was supplied
jwtAlwaysAssigns(b, token, user) ==
    [token EXCEPT !.role = IF user # UndefinedUser THEN user.role ELSE Undefined]

jwt(b, token, user) ==
    IF user # UndefinedUser /\ isUser(b, user)
    THEN [token EXCEPT !.role = user.role]
    ELSE token

NullSession == [kind |-> "null"]

NoUserObj == [kind |-> "undefined"]

\* a role already on the session is kept
sessionKeepsPrior(s, token) ==
    IF s # NullSession /\ s.user # NoUserObj /\ s.user.role = Undefined
    THEN [s EXCEPT !.user.role = token.role]
    ELSE s

\* a role equal to the token's is removed instead of rewritten
sessionToggles(s, token) ==
    IF s # NullSession /\ s.user # NoUserObj
    THEN [s EXCEPT !.user.role = IF s.user.role = token.role THEN Undefined ELSE token.role]
    ELSE s

session(s, token) ==
    IF s # NullSession /\ s.user # NoUserObj
    THEN [s EXCEPT !.user.role = token.role]
    ELSE s

(***************************************************************************)
(* The token transport: what the framework hands to the callbacks          *)
(***************************************************************************)
NoToken == [kind |-> "none"]

NoSession == [kind |-> "none"]

NoResult == [kind |-> "none"]

\* the token of a fresh sign-in, before the jwt callback sees it
SignInToken(user) ==
    [kind |-> "token", sub |-> user.id, email |-> user.email, name |-> user.name,
     role |-> Undefined]

PriorRoles == {Undefined, "GUEST", "ADMIN"}

\* the base sessions the session callback is written for
BaseSessions(token) ==
    {[kind |-> "session",
      user |-> [kind |-> "user", email |-> token.email, name |-> token.name, role |-> r]] :
        r \in PriorRoles}
    \cup {[kind |-> "session", user |-> NoUserObj], NullSession}

(***************************************************************************)
(* State                                                                   *)
(***************************************************************************)
VARIABLES users, build, phase, credentials, result, token, base, sess, op

\* LocationInput: the value prop, the pending debounce timeout, the component
\* state, the search requests and geolocation lookups not yet settled
VARIABLES value, timer, debouncedQuery, options, isLoading, locationError,
          inflight, nextReq, geo, searchOnly

\* ReportWizard: the state of the component, and the values of it that the
\* last render captured in the handler it passed to the rendered step
VARIABLES currentStep, reportData, renderedStep, renderedData

wizVars == <<currentStep, reportData, renderedStep, renderedData>>

authVars == <<users, build, phase, credentials, result, token, base, sess, op>>

locVars == <<value, timer, debouncedQuery, options, isLoading, locationError,
             inflight, nextReq, geo, searchOnly>>

vars == <<users, build, phase, credentials, result, token, base, sess, op,
          value, timer, debouncedQuery, options, isLoading, locationError,
          inflight, nextReq, geo, searchOnly,
          currentStep, reportData, renderedStep, renderedData>>

FirstStep == 1

LastStep == 4

NoReport == [kind |-> "null"]

\* the wizard before it is mounted
WizUnmounted ==
    /\ currentStep = FirstStep
    /\ reportData = NoReport
    /\ renderedStep = FirstStep
    /\ renderedData = NoReport

\* the search box before it is mounted
LocUnmounted ==
    /\ value = <<>>
    /\ timer = <<>>
    /\ debouncedQuery = <<>>
    /\ options = <<>>
    /\ isLoading = FALSE
    /\ locationError = Null
    /\ inflight = {}
    /\ nextReq = 0
    /\ geo = 0
    /\ searchOnly = TRUE

Init ==
    /\ LocUnmounted
    /\ WizUnmounted
    /\ users \in UserTables
    /\ build \in Builds
    /\ phase = "Anonymous"
    /\ credentials = UndefinedCredentials
    /\ result = NoResult
    /\ token = NoToken
    /\ base = NoSession
    /\ sess = NoSession
    /\ op = "init"

\* Anonymous --submit credentials--> Authenticating
Submit ==
    /\ phase = "Anonymous"
    /\ \E c \in CredentialInputs : credentials' = c
    /\ phase' = "Authenticating"
    /\ result' = NoResult
    /\ op' = "submit"
    /\ UNCHANGED locVars
    /\ UNCHANGED wizVars
    /\ UNCHANGED <<users, build, token, base, sess>>

\* authorize throws: the error is surfaced and the subject is Anonymous again
AuthorizeThrows ==
    /\ phase = "Authenticating"
    /\ result = NoResult
    /\ authorize(users, credentials).kind = "error"
    /\ result' = authorize(users, credentials)
    /\ phase' = "Anonymous"
    /\ op' = "authorize"
    /\ UNCHANGED locVars
    /\ UNCHANGED wizVars
    /\ UNCHANGED <<users, build, credentials, token, base, sess>>

\* authorize returns the user object
AuthorizeReturns ==
    /\ phase = "Authenticating"
    /\ result = NoResult
    /\ authorize(users, credentials).kind = "user"
    /\ result' = authorize(users, credentials)
    /\ op' = "authorize"
    /\ UNCHANGED locVars
    /\ UNCHANGED wizVars
    /\ UNCHANGED <<users, build, phase, credentials, token, base, sess>>

\* the jwt callback at sign-in: the user object of authorize is supplied
JwtSignIn ==
    /\ phase = "Authenticating"
    /\ result.kind = "user"
    /\ token' = jwt(build, SignInToken(result.user), result.user)
    /\ phase' = "Authenticated"
    /\ op' = "jwtSignIn"
    /\ UNCHANGED locVars
    /\ UNCHANGED wizVars
    /\ UNCHANGED <<users, build, credentials, result, base, sess>>

\* the jwt callback of a later request: no user object
JwtRequest ==
    /\ phase = "Authenticated"
    /\ token' = jwt(build, token, UndefinedUser)
    /\ op' = "jwt"
    /\ UNCHANGED locVars
    /\ UNCHANGED wizVars
    /\ UNCHANGED <<users, build, phase, credentials, result, base, sess>>

\* the session callback of a request, on a base session of the transport
SessionRequest ==
    /\ phase = "Authenticated"
    /\ \E b \in BaseSessions(token) :
         /\ base' = b
         /\ sess' = session(b, token)
    /\ op' = "session"
    /\ UNCHANGED locVars
    /\ UNCHANGED wizVars
    /\ UNCHANGED <<users, build, phase, credentials, result, token>>

\* the session callback called again on the object it returned
SessionAgain ==
    /\ phase = "Authenticated"
    /\ sess # NoSession
    /\ sess' = session(sess, token)
    /\ op' = "sessionAgain"
    /\ UNCHANGED locVars
    /\ UNCHANGED wizVars
    /\ UNCHANGED <<users, build, phase, credentials, result, token, base>>

\* token expiry or sign-out
SignOut ==
    /\ phase = "Authenticated"
    /\ phase' = "Anonymous"
    /\ token' = NoToken
    /\ base' = NoSession
    /\ sess' = NoSession
    /\ op' = "signOut"
    /\ UNCHANGED locVars
    /\ UNCHANGED wizVars
    /\ UNCHANGED <<users, build, credentials, result>>

Next ==
    \/ Submit
    \/ AuthorizeThrows
    \/ AuthorizeReturns
    \/ JwtSignIn
    \/ JwtRequest
    \/ SessionRequest
    \/ SessionAgain
    \/ SignOut

Spec == Init /\ [][Next]_vars

(***************************************************************************)
(* LocationInput                                                           *)
(***************************************************************************)
MaxGeo == 1

MinQueryLen == 2

\* what the user types: the prefixes of one place name
Text == <<"l", "o", "n", "d", "o", "n", "s">>

Prefix(n) == SubSeq(Text, 1, n)

QueryInputs == {Prefix(n) : n \in 0..MaxLen}

\* JavaScript number parsing and template strings, on sequences of characters
DigitValue(c) == (CHOOSE i \in 1..10 : Digits[i] = c) - 1

RECURSIVE DigitsToNat(_)
DigitsToNat(ds) ==
    IF ds = <<>> THEN 0
    ELSE 10 * DigitsToNat(SubSeq(ds, 1, Len(ds) - 1)) + DigitValue(ds[Len(ds)])

\* a decimal as [int, frac, scale]: int + frac / 10^scale
parseFloat(str) ==
    LET dot == CHOOSE i \in 1..Len(str) : str[i] = "." IN
    [int |-> DigitsToNat(SubSeq(str, 1, dot - 1)),
     frac |-> DigitsToNat(SubSeq(str, dot + 1, Len(str))),
     scale |-> Len(str) - dot]

\* the places the search service has for a query
Nominatim(q) ==
    <<[lat |-> <<"5", "1", ".">> \o toString(Len(q)),
       lon |-> <<"0", ".", "1">>,
       display_name |-> Text]>>

\* response.data.map(place => ({value, label, lat, lon}))
FormatPlace(place) ==
    [value |-> place.lat \o <<",">> \o place.lon,
     label |-> place.display_name,
     lat |-> parseFloat(place.lat),
     lon |-> parseFloat(place.lon)]

FormatOptions(places) == [i \in 1..Len(places) |-> FormatPlace(places[i])]

\* what reverse geocoding, or the coordinate fallback, hands to onChange
GeoValues == {Text, <<"5", "1", ".", "5", ",", " ", "0", ".", "1">>}

FetchFailed == "Failed to fetch location suggestions."

GeoFailed == "Unable to get your location"

\* the state after the effect on [debouncedQuery] has run for query q
\* fetchLocations(q) up to its await, or setOptions([])
QueryEffect(q) ==
    IF Len(q) > MinQueryLen
    THEN /\ nextReq < MaxFetches
         /\ isLoading' = TRUE
         /\ locationError' = Null
         /\ nextReq' = nextReq + 1
         /\ inflight' = inflight \cup {[id |-> nextReq + 1, query |-> q]}
         /\ UNCHANGED options
    ELSE /\ options' = <<>>
         /\ UNCHANGED <<isLoading, locationError, nextReq, inflight>>

\* the component mounted on an empty field, after its first render and both
\* mount effects: a timeout is pending and setOptions([]) has run
LocInit ==
    /\ WizUnmounted
    /\ users = {}
    /\ build = "route"
    /\ phase = "Anonymous"
    /\ credentials = UndefinedCredentials
    /\ result = NoResult
    /\ token = NoToken
    /\ base = NoSession
    /\ sess = NoSession
    /\ op = "init"
    /\ value = <<>>
    /\ timer = <<value>>
    /\ debouncedQuery = value
    /\ options = <<>>
    /\ isLoading = FALSE
    /\ locationError = Null
    /\ inflight = {}
    /\ nextReq = 0
    /\ geo = 0
    /\ searchOnly = TRUE

\* the parent re-renders with a new value: the effect on [value] clears the
\* pending timeout and sets a new one
NewValue(v) ==
    /\ value' = v
    /\ timer' = IF v = value THEN timer ELSE <<v>>

\* onInputChange: the user edits the text
ChangeValue ==
    /\ \E v \in QueryInputs : v # value /\ NewValue(v)
    /\ UNCHANGED <<debouncedQuery, options, isLoading, locationError, inflight,
                   nextReq, geo, searchOnly>>
    /\ UNCHANGED authVars
    /\ UNCHANGED wizVars

\* handleChange: the user picks a suggestion
SelectOption ==
    /\ \E i \in 1..Len(options) : options[i].label # value /\ NewValue(options[i].label)
    /\ UNCHANGED <<debouncedQuery, options, isLoading, locationError, inflight,
                   nextReq, geo, searchOnly>>
    /\ UNCHANGED authVars
    /\ UNCHANGED wizVars

\* the timeout fires: setDebouncedQuery(value), and the effect on
\* [debouncedQuery] when the query changed
DebounceFires ==
    /\ timer # <<>>
    /\ timer' = <<>>
    /\ debouncedQuery' = timer[1]
    /\ IF timer[1] = debouncedQuery
       THEN UNCHANGED <<options, isLoading, locationError, inflight, nextReq>>
       ELSE QueryEffect(timer[1])
    /\ UNCHANGED <<value, geo, searchOnly>>
    /\ UNCHANGED authVars
    /\ UNCHANGED wizVars

\* axios.get resolves: setOptions(formattedOptions), finally setIsLoading(false)
SearchResponds ==
    /\ \E r \in inflight :
         /\ inflight' = inflight \ {r}
         /\ options' = FormatOptions(Nominatim(r.query))
    /\ isLoading' = FALSE
    /\ UNCHANGED <<value, timer, debouncedQuery, locationError, nextReq, geo, searchOnly>>
    /\ UNCHANGED authVars
    /\ UNCHANGED wizVars

\* axios.get rejects: setLocationError, finally setIsLoading(false)
SearchFails ==
    /\ \E r \in inflight : inflight' = inflight \ {r}
    /\ locationError' = FetchFailed
    /\ isLoading' = FALSE
    /\ searchOnly' = FALSE
    /\ UNCHANGED <<value, timer, debouncedQuery, options, nextReq, geo>>
    /\ UNCHANGED authVars
    /\ UNCHANGED wizVars

\* the location button, enabled while isLoading is false
GeoClick ==
    /\ ~isLoading
    /\ geo < MaxGeo
    /\ geo' = geo + 1
    /\ isLoading' = TRUE
    /\ locationError' = Null
    /\ searchOnly' = FALSE
    /\ UNCHANGED <<value, timer, debouncedQuery, options, inflight, nextReq>>
    /\ UNCHANGED authVars
    /\ UNCHANGED wizVars

\* the position and its name arrive: onChange(name), finally setIsLoading(false)
GeoResolves ==
    /\ geo > 0
    /\ geo' = geo - 1
    /\ \E v \in GeoValues : NewValue(v)
    /\ isLoading' = FALSE
    /\ searchOnly' = FALSE
    /\ UNCHANGED <<debouncedQuery, options, locationError, inflight, nextReq>>
    /\ UNCHANGED authVars
    /\ UNCHANGED wizVars

\* geolocation is refused or times out
GeoRejects ==
    /\ geo > 0
    /\ geo' = geo - 1
    /\ locationError' = GeoFailed
    /\ isLoading' = FALSE
    /\ searchOnly' = FALSE
    /\ UNCHANGED <<value, timer, debouncedQuery, options, inflight, nextReq>>
    /\ UNCHANGED authVars
    /\ UNCHANGED wizVars

LocNext ==
    \/ ChangeValue
    \/ SelectOption
    \/ DebounceFires
    \/ SearchResponds
    \/ SearchFails
    \/ GeoClick
    \/ GeoResolves
    \/ GeoRejects

LocSpec == LocInit /\ [][LocNext]_vars

(***************************************************************************)
(* ReportWizard                                                            *)
(***************************************************************************)
MaxCurrentStep == 6

\* the steps whose component is rendered with onComplete={handleStepComplete}
StepsWithHandler == {1, 2}

\* the results a step hands to onComplete
ReportResults ==
    [kind : {"result"}, message : {"Report submitted"}, reportId : {"r1", "r2"},
     success : BOOLEAN]

\* { ...reportData, ...data }
Spread(old, data) ==
    IF old = NoReport THEN data
    ELSE [f \in DOMAIN old \cup DOMAIN data |-> IF f \in DOMAIN data THEN data[f] ELSE old[f]]

\* the component after its first render
WizInit ==
    /\ LocUnmounted
    /\ users = {}
    /\ build = "route"
    /\ phase = "Anonymous"
    /\ credentials = UndefinedCredentials
    /\ result = NoResult
    /\ token = NoToken
    /\ base = NoSession
    /\ sess = NoSession
    /\ op = "init"
    /\ currentStep = FirstStep
    /\ reportData = NoReport
    /\ renderedStep = currentStep
    /\ renderedData = reportData

\* the rendered step calls the handler of the last render: setReportData of
\* the captured reportData, the test of the captured currentStep, and the
\* updater prev => prev + 1 applied to the latest state
handleStepComplete ==
    /\ renderedStep \in StepsWithHandler
    /\ \E data \in ReportResults : reportData' = Spread(renderedData, data)
    /\ IF renderedStep = LastStep
       THEN UNCHANGED currentStep
       ELSE /\ currentStep < MaxCurrentStep
            /\ currentStep' = currentStep + 1
    /\ UNCHANGED <<renderedStep, renderedData>>
    /\ UNCHANGED authVars
    /\ UNCHANGED locVars

\* the component re-renders with the state set since the last render
Render ==
    /\ <<renderedStep, renderedData>> # <<currentStep, reportData>>
    /\ renderedStep' = currentStep
    /\ renderedData' = reportData
    /\ UNCHANGED <<currentStep, reportData>>
    /\ UNCHANGED authVars
    /\ UNCHANGED locVars

WizNext ==
    \/ handleStepComplete
    \/ Render

WizSpec == WizInit /\ [][WizNext]_vars

(***************************************************************************)
(* Properties of the authentication flow                                   *)
(***************************************************************************)
HasUser(s) == s.kind = "session" /\ s.user.kind = "user"

Attempted == result # NoResult

\* the record a pair of credentials matches with a verifying password
Verifies(c, u) ==
    c # UndefinedCredentials /\ c.email = u.email /\ compare(c.password, u.password)

\* C1: when the submitted email matches a stored record and the password
\* verifies against its digest, authorize returns {id, email, name, role} of
\* that record, the role being the record's role, one of the three enum values.
C1_AuthorizeReturnsRecordClaims ==
    \A u \in users :
        (Attempted /\ Verifies(credentials, u)) =>
            /\ result.kind = "user"
            /\ result.user.id = toString(u.id)
            /\ result.user.email = u.email
            /\ result.user.name = u.name
            /\ result.user.role = u.role
            /\ result.user.role \in Roles

C1_Witness ==
    /\ op = "authorize"
    /\ result.kind = "user"
    /\ result.user.role = "MODERATOR"
    /\ Cardinality(users) = MaxUsers

\* C2: when the email or the password is empty or missing, authorize fails at
\* the input check and no store lookup and no password comparison has run.
C2_InvalidInputNoLookup ==
    (Attempted /\ (Falsy(OptEmail(credentials)) \/ Falsy(OptPassword(credentials)))) =>
        /\ result.kind = "error"
        /\ result.site = "InvalidInput"
        /\ result.lookups = 0
        /\ result.compares = 0

C2_Witness ==
    /\ op = "authorize"
    /\ result.kind = "error"
    /\ result.site = "InvalidInput"
    /\ credentials # UndefinedCredentials
    /\ credentials.password = ""
    /\ \E u \in users : u.email = credentials.email

\* C3: the failure of a wrong password for an existing record carries the same
\* caller-visible error as the failure of any email with no record.
C3_FailuresIndistinguishable ==
    (result.kind = "error" /\ result.site = "InvalidCredentials") =>
        \A c \in CredentialInputs :
            LET other == authorize(users, c) IN
            (other.kind = "error" /\ other.site = "UserNotFound") =>
                other.message = result.message

\* C4: no token and no session exists outside Authenticated, every failure of
\* authorize leaves the subject Anonymous, and an Authenticated subject holds
\* a token whose claims are those of a record that the submitted credentials
\* matched with a verifying password.
C4_NoTokenWithoutVerification ==
    /\ phase # "Authenticated" => (token = NoToken /\ sess = NoSession)
    /\ result.kind = "error" =>
          (phase = "Anonymous" /\ result.site \in {"InvalidInput", "UserNotFound", "InvalidCredentials"})
    /\ phase = "Authenticated" =>
          /\ result.kind = "user"
          /\ token.kind = "token"
          /\ \E u \in users :
                /\ Verifies(credentials, u)
                /\ token.email = u.email
                /\ token.role = u.role

C4_Witness ==
    /\ phase = "Anonymous"
    /\ result.kind = "error"
    /\ result.site = "InvalidCredentials"
    /\ token = NoToken

\* C5: after the session callback, a base session with a user object comes
\* back with that user's role replaced by the token's role and its email and
\* name unchanged; a base session without a user object comes back as it was.
C5_SessionCallbackSetsRole ==
    op = "session" =>
        IF base # NullSession /\ base.user # NoUserObj
        THEN /\ HasUser(sess)
             /\ sess.user.role = token.role
             /\ sess.user.email = base.user.email
             /\ sess.user.name = base.user.name
        ELSE sess = base

C5_Witness ==
    /\ op = "session"
    /\ HasUser(base)
    /\ base.user.role = "GUEST"
    /\ sess.user.role = "MODERATOR"

\* C6: the role of a session projected after login is the role of the stored
\* record the login was made with, whichever of the three roles that is.
C6_RoundTripRole ==
    (phase = "Authenticated" /\ HasUser(sess)) =>
        \E u \in users :
            /\ u.email = credentials.email
            /\ u.role \in Roles
            /\ sess.user.role = u.role

C6_Witness ==
    /\ phase = "Authenticated"
    /\ HasUser(sess)
    /\ \E u \in users : u.email = credentials.email /\ u.role = "ADMIN"
    /\ \E u \in users : u.email # credentials.email /\ u.role = "USER"

\* C7: whenever a token exists its role is one of ADMIN, USER, MODERATOR, and
\* so is the role of every projected session that has a user object.
C7_RoleInvariant ==
    /\ token # NoToken => token.role \in Roles
    /\ (sess # NoSession /\ HasUser(sess)) => sess.user.role \in Roles

C7_Witness ==
    /\ op = "sessionAgain"
    /\ HasUser(sess)
    /\ HasUser(base)
    /\ base.user.role = "GUEST"

\* C8: between sign-in and sign-out no step changes the token, and the role of
\* a projected session with a user object is always the role in the token.
C8_TokenImmutableSessionFollows ==
    /\ [][(phase = "Authenticated" /\ phase' = "Authenticated") => token' = token]_vars
    /\ []((sess # NoSession /\ HasUser(sess)) => sess.user.role = token.role)

C8_Witness ==
    /\ op = "jwt"
    /\ HasUser(sess)
    /\ sess.user.role = "USER"

\* C9: calling the session callback again on the session it returned, with
\* the same token, returns that session unchanged.
C9_SessionIdempotent ==
    [][SessionAgain => sess' = sess]_vars

C9_Witness ==
    /\ op = "sessionAgain"
    /\ HasUser(sess)
    /\ sess.user.role = "ADMIN"
    /\ base.user.role = "ADMIN"

(***************************************************************************)
(* Properties of the location search box                                   *)
(***************************************************************************)
\* the suggestions the most recent debounced query should show
Expected(q) == IF Len(q) > MinQueryLen THEN FormatOptions(Nominatim(q)) ELSE <<>>

\* C10: while only value changes, timer firings and search responses have
\* happened: with no request in flight the options are those of the debounced
\* query (none for a query of 2 or fewer characters), isLoading is true while
\* a request is in flight, and a response to a query other than the debounced
\* one leaves the options as they are.
C10_OptionsFollowLatestQuery ==
    /\ [](searchOnly =>
            /\ inflight = {} => options = Expected(debouncedQuery)
            /\ inflight # {} => isLoading)
    /\ [][(searchOnly /\ \E r \in inflight :
                inflight' = inflight \ {r} /\ r.query # debouncedQuery)
            => options' = options]_vars

(***************************************************************************)
(* Properties of the report wizard                                         *)
(***************************************************************************)
\* C11: currentStep starts at 1, every change of it is an increment by one
\* made by handleStepComplete, and it stays within 1..4 whatever the calls,
\* several calls between two renders included.
C11_StepWithinBounds ==
    /\ currentStep = FirstStep
    /\ [][currentStep' # currentStep => (handleStepComplete /\ currentStep' = currentStep + 1)]_vars
    /\ [](currentStep \in FirstStep..LastStep)

====
